---- MODULE Spec2Model ----
(***************************************************************************)
(* CookWise RAG backend (backend/app.py): the /ingest and /chat handlers,  *)
(* the Chroma collection they share, embed_texts and                       *)
(* build_prompt_from_messages.                                             *)
(*                                                                         *)
(* Text is a sequence of chunks; a chunk is one character or one fixed     *)
(* literal of the source.  A JSON object is a record; a key the object     *)
(* lacks (or carries as null) is a field the record lacks.                 *)
(* An embedding is described by its length, by whether it is the all-zero  *)
(* fallback, and by the text the provider computed it from.                *)
(***************************************************************************)
EXTENDS Integers, Sequences, FiniteSets, TLC

\* ---------------------------------------------------------------- bounds
NumTopics    == 2   \* topics fetched per ingest (TOPICS has 10 in the source)
NumFallback  == 2   \* built-in fallback documents (8 in the source)
MaxDocs      == 4   \* documents ingested in one behaviour (uuid4 values drawn)
MaxTexts     == 3   \* texts in one embed_texts batch
MaxHist      == 10  \* turns of a history drawn from the common turn shapes
MaxMixedLen  == 3   \* turns of a history drawn from every turn shape
OtherDim     == 4   \* a provider vector length other than the default

\* ------------------------------------------------------ program constants
DefaultDim    == 768  \* length of the fallback zero vector with no embeddings yet
HistoryWindow == 6    \* history[-6:]
N_RESULTS     == 5    \* n_results=5

\* ------------------------------------------------------------ text helpers
Min(a, b) == IF a < b THEN a ELSE b

Max(a, b) == IF a > b THEN a ELSE b

Whitespace == {" ", "\n", "\t"}

RECURSIVE LStrip(_)
LStrip(s) == IF s # <<>> /\ Head(s) \in Whitespace THEN LStrip(Tail(s)) ELSE s

RECURSIVE RStrip(_)
RStrip(s) ==
    IF s # <<>> /\ s[Len(s)] \in Whitespace
    THEN RStrip(SubSeq(s, 1, Len(s) - 1))
    ELSE s

\* str.strip()
Strip(s) == RStrip(LStrip(s))

\* sep.join(parts)
RECURSIVE Join(_, _)
Join(sep, parts) ==
    IF parts = <<>> THEN <<>>
    ELSE IF Len(parts) = 1 THEN parts[1]
    ELSE parts[1] \o sep \o Join(sep, Tail(parts))

\* dict.get(key, default)
Get(d, key, default) == IF key \in DOMAIN d THEN d[key] ELSE default

\* dict.get(key) is not None
Has(d, key) == key \in DOMAIN d

RECURSIVE Flatten(_)
Flatten(ss) == IF ss = <<>> THEN <<>> ELSE Head(ss) \o Flatten(Tail(ss))

Range(s) == {s[i] : i \in 1..Len(s)}

\* ------------------------------------------------------------- embed_texts
\* What one call to the embedding provider does: 0 is any failure (network
\* error, timeout, non-2xx status, malformed body), d > 0 a vector of d values.
Fail == 0

ProviderDims == {DefaultDim, OtherDim}

EmbedOutcomes == {Fail} \cup ProviderDims

ProviderVec(text, d) == [dim |-> d, zero |-> FALSE, text |-> text]

ZeroVec(d) == [dim |-> d, zero |-> TRUE, text |-> <<>>]

FallbackDim_Always768(embeddings) == DefaultDim

\* lines 81-84
FallbackDim(embeddings) ==
    IF embeddings # <<>> THEN embeddings[1].dim ELSE DefaultDim

OnEmbedFailure_Drop(embeddings) == embeddings

\* the except branch, lines 78-85
OnEmbedFailure(embeddings) ==
    Append(embeddings, ZeroVec(FallbackDim(embeddings)))

\* the try branch, lines 64-77
OnEmbedSuccess(embeddings, text, d) ==
    Append(embeddings, ProviderVec(text, d))

RECURSIVE embed_loop(_, _, _, _)
embed_loop(texts, outcomes, i, embeddings) ==
    IF i > Len(texts) THEN embeddings
    ELSE embed_loop(texts, outcomes, i + 1,
            IF outcomes[i] # Fail
            THEN OnEmbedSuccess(embeddings, texts[i], outcomes[i])
            ELSE OnEmbedFailure(embeddings))

embed_texts(texts, outcomes) ==
    IF texts = <<>> THEN <<>> ELSE embed_loop(texts, outcomes, 1, <<>>)

OutcomeSeqs(n) == [1..n -> EmbedOutcomes]

\* ------------------------------------------------- prompt assembly (chat)
SYSTEM_INSTRUCTION == <<"You are CookWise, an expert cooking assistant. ...">>

LastTurns_First(history) == SubSeq(history, 1, Min(Len(history), HistoryWindow))

\* history[-6:]
LastTurns(history) ==
    SubSeq(history, Max(1, Len(history) - HistoryWindow + 1), Len(history))

KeepTurn_AnyRole(h) == Has(h, "content") /\ h.content # <<>>

\* role in ("user", "assistant") and content
KeepTurn(h) ==
    /\ Has(h, "role") /\ h.role \in {"user", "assistant"}
    /\ Has(h, "content") /\ h.content # <<>>

\* the loop of lines 249-253
RECURSIVE HistoryMessages(_)
HistoryMessages(turns) ==
    IF turns = <<>> THEN <<>>
    ELSE (IF KeepTurn(Head(turns))
          THEN <<[k \in DOMAIN Head(turns) \cap {"role", "content"} |->
                      Head(turns)[k]]>>
          ELSE <<>>) \o HistoryMessages(Tail(turns))

\* block of one retrieved document, lines 225-227
ContextBlock(text, meta) ==
    <<"Title: ">> \o Get(meta, "title", <<"Unknown">>)
    \o <<"\n", "Source: ">> \o Get(meta, "source", <<>>)
    \o <<"\n", "Content: ">> \o text

ContextStr(docs, metadatas) ==
    Join(<<"\n\n---\n\n">>,
         [i \in 1..Min(Len(docs), Len(metadatas)) |->
              ContextBlock(docs[i], metadatas[i])])

AssembleMessages_UserFirst(context_str, history, user_message) ==
    <<[role |-> "system", content |-> SYSTEM_INSTRUCTION],
      [role |-> "system",
       content |-> <<"Knowledge base context:", "\n">> \o context_str],
      [role |-> "user", content |-> user_message]>>
    \o HistoryMessages(LastTurns(history))

\* lines 233-255
AssembleMessages(context_str, history, user_message) ==
    <<[role |-> "system", content |-> SYSTEM_INSTRUCTION],
      [role |-> "system",
       content |-> <<"Knowledge base context:", "\n">> \o context_str]>>
    \o HistoryMessages(LastTurns(history))
    \o <<[role |-> "user", content |-> user_message]>>

Prefix(role) ==
    IF role = "system" THEN "System"
    ELSE IF role = "assistant" THEN "Assistant"
    ELSE "User"

RECURSIVE PromptLines(_)
PromptLines(messages) ==
    IF messages = <<>> THEN <<>>
    ELSE (IF Get(Head(messages), "content", <<>>) = <<>>
          THEN <<>>
          ELSE << <<Prefix(Get(Head(messages), "role", "user")), ": ">>
                  \o Head(messages).content >>)
         \o PromptLines(Tail(messages))

build_prompt_from_messages(messages) == Join(<<"\n\n">>, PromptLines(messages))

\* ------------------------------------------------------------------ state
VARIABLES
    collection,       \* the Chroma collection "cook_knowledge"
    ipc,              \* position of the /ingest handler
    itopic,           \* index into TOPICS of the loop of line 131
    docs, metas, ids, \* the handler's local lists
    embeddings,       \* result of embed_texts(docs)
    ioutcomes,        \* what the provider did for each of docs
    fetched,          \* topics of this request that yielded a document
    nextId,           \* source of fresh uuid4 values
    installed,        \* ids added by each completed /ingest, oldest first
    cpc,              \* position of the /chat handler
    user_message, history,
    query_embedding,
    results,          \* documents, metadatas and ids returned by the query
    messages, prompt_text,
    response,         \* the handler's HTTP response
    embedCalls,       \* embedding requests sent by the current /chat
    genCalls,         \* generation requests sent by the current /chat
    genOutcome,       \* how the current /chat's generation request ended
    countSeen,        \* collection.count() as read by the current /chat
    installedSeen,    \* completed ingests when the current /chat read count()
    visible,          \* ids in the collection when the current /chat queried it
    etexts, eoutcomes, eresult, epc   \* one embed_texts call on its own

ingestVars == <<ipc, itopic, docs, metas, ids, embeddings, ioutcomes, fetched,
                nextId, installed>>

chatVars == <<cpc, user_message, history, query_embedding, results, messages,
              prompt_text, response, embedCalls, genCalls, genOutcome,
              countSeen, installedSeen, visible>>

embedVars == <<etexts, eoutcomes, eresult, epc>>

vars == <<collection, ingestVars, chatVars, embedVars>>

\* ------------------------------------------------------------- collection
EmptyCollection ==
    [documents |-> <<>>, metadatas |-> <<>>, ids |-> <<>>, embeddings |-> <<>>]

Count(coll) == Len(coll.ids)

CollectionAdd_Replace(coll, d, m, i, e) ==
    [documents |-> d, metadatas |-> m, ids |-> i, embeddings |-> e]

\* collection.add(documents=, metadatas=, ids=, embeddings=)
CollectionAdd(coll, d, m, i, e) ==
    [documents  |-> coll.documents \o d,
     metadatas  |-> coll.metadatas \o m,
     ids        |-> coll.ids \o i,
     embeddings |-> coll.embeddings \o e]

RECURSIVE SortedSeq(_)
SortedSeq(S) ==
    IF S = {} THEN <<>>
    ELSE LET lo == CHOOSE x \in S : \A y \in S : x <= y
         IN  <<lo>> \o SortedSeq(S \ {lo})

Pick(coll, idx) ==
    [documents |-> [j \in 1..Len(idx) |-> coll.documents[idx[j]]],
     metadatas |-> [j \in 1..Len(idx) |-> coll.metadatas[idx[j]]],
     ids       |-> [j \in 1..Len(idx) |-> coll.ids[idx[j]]]]

\* collection.query(query_embeddings=[q], n_results=n): min(n, count) entries.
\* Which entries rank highest is decided inside chromadb; every choice of
\* entries is possible here, listed in collection order.
QueryResults(coll, n) ==
    {Pick(coll, SortedSeq(S)) :
        S \in {T \in SUBSET (1..Count(coll)) :
                   Cardinality(T) = Min(n, Count(coll))}}

NoResults == [documents |-> <<>>, metadatas |-> <<>>, ids |-> <<>>]

\* ----------------------------------------------------------------- ingest
TOPICS == [i \in 1..NumTopics |-> <<"topic ", ToString(i)>>]

fallback_docs == [i \in 1..NumFallback |-> <<"fallback text ", ToString(i)>>]

FallbackMeta(i) ==
    [title |-> <<"Fallback doc ", ToString(i)>>, source |-> <<"local-fallback">>]

Extract(title) == <<"extract of ">> \o title

PageUrl(title) == <<"https://en.wikipedia.org/wiki/">> \o title

\* ok: status 200 with a non-empty extract; status: status other than 200;
\* empty: no extract; error: the request or the JSON decoding raised.
FetchOutcomes == {"ok", "status", "empty", "error"}

\* the provider behind embed_texts as /ingest and /chat reach it:
\* text-embedding-004 answers with DefaultDim values or fails
SystemEmbedOutcomes == {Fail, DefaultDim}

NeedsFallback_Never(d) == FALSE

\* if not docs
NeedsFallback(d) == d = <<>>

\* lines 126-128
IngestStart ==
    /\ ipc = "idle"
    /\ (nextId - 1) + Max(Len(TOPICS), Len(fallback_docs)) <= MaxDocs
    /\ ipc' = "fetch"
    /\ itopic' = 1
    /\ docs' = <<>> /\ metas' = <<>> /\ ids' = <<>> /\ embeddings' = <<>>
    /\ ioutcomes' = <<>>
    /\ fetched' = 0
    /\ UNCHANGED <<collection, nextId, installed, chatVars, embedVars>>

\* one iteration of the loop of lines 131-160
IngestFetch ==
    /\ ipc = "fetch"
    /\ \E outcome \in FetchOutcomes :
        IF outcome = "ok"
        THEN /\ docs' = Append(docs, Extract(TOPICS[itopic]))
             /\ metas' = Append(metas, [title  |-> TOPICS[itopic],
                                        source |-> PageUrl(TOPICS[itopic])])
             /\ ids' = Append(ids, nextId)
             /\ nextId' = nextId + 1
             /\ fetched' = fetched + 1
        ELSE UNCHANGED <<docs, metas, ids, nextId, fetched>>
    /\ itopic' = itopic + 1
    /\ ipc' = IF itopic = Len(TOPICS) THEN "loaded" ELSE "fetch"
    /\ UNCHANGED <<collection, embeddings, ioutcomes, installed, chatVars,
                   embedVars>>

\* lines 163-180
IngestFallback ==
    /\ ipc = "loaded"
    /\ IF NeedsFallback(docs)
       THEN /\ docs' = docs \o fallback_docs
            /\ metas' = metas \o [i \in 1..Len(fallback_docs) |-> FallbackMeta(i)]
            /\ ids' = ids \o [i \in 1..Len(fallback_docs) |-> nextId + i - 1]
            /\ nextId' = nextId + Len(fallback_docs)
       ELSE UNCHANGED <<docs, metas, ids, nextId>>
    /\ ipc' = "embed"
    /\ UNCHANGED <<collection, itopic, embeddings, ioutcomes, fetched,
                   installed, chatVars, embedVars>>

\* line 183
IngestEmbed ==
    /\ ipc = "embed"
    /\ \E outcomes \in [1..Len(docs) -> SystemEmbedOutcomes] :
        /\ embeddings' = embed_texts(docs, outcomes)
        /\ ioutcomes' = outcomes
    /\ ipc' = "add"
    /\ UNCHANGED <<collection, itopic, docs, metas, ids, fetched, nextId,
                   installed, chatVars, embedVars>>

IngestAdd_Piecewise ==
    /\ ipc = "add"
    /\ docs # <<>>
    /\ collection' = CollectionAdd(collection, <<Head(docs)>>, <<Head(metas)>>,
                                   <<Head(ids)>>, <<Head(embeddings)>>)
    /\ docs' = Tail(docs) /\ metas' = Tail(metas) /\ ids' = Tail(ids)
    /\ embeddings' = Tail(embeddings) /\ ioutcomes' = Tail(ioutcomes)
    /\ IF Len(docs) = 1
       THEN /\ installed' = Append(installed,
                 SubSeq(collection'.ids,
                        Len(Flatten(installed)) + 1, Count(collection')))
            /\ ipc' = "idle"
       ELSE UNCHANGED <<installed, ipc>>
    /\ UNCHANGED <<itopic, fetched, nextId, chatVars, embedVars>>

\* lines 184-188: the add and the response {"documents_added": len(docs)}
IngestAdd ==
    /\ ipc = "add"
    /\ collection' = CollectionAdd(collection, docs, metas, ids, embeddings)
    /\ installed' = Append(installed, ids)
    /\ ipc' = "idle"
    /\ docs' = <<>> /\ metas' = <<>> /\ ids' = <<>> /\ embeddings' = <<>>
    /\ ioutcomes' = <<>>
    /\ UNCHANGED <<itopic, fetched, nextId, chatVars, embedVars>>

IngestNext ==
    IngestStart \/ IngestFetch \/ IngestFallback \/ IngestEmbed \/ IngestAdd

\* ------------------------------------------------------------------- chat
\* raw values of the message key: empty, blank, and text with blanks around
RawMessages == {<<>>, <<" ">>, <<" ", "\n">>, <<"q">>, <<" ", "q", "\n">>}

UserTurn(i) == [role |-> "user", content |-> <<"turn ", ToString(i)>>]

\* histories a /chat request of the whole system carries
SystemHistories == {<<>>, <<UserTurn(1)>>}

\* request bodies: the message key may be absent, and so may history
ChatRequests ==
    {[message |-> m, history |-> h] : m \in RawMessages, h \in SystemHistories}
    \cup {[message |-> m] : m \in RawMessages}
    \cup {[history |-> h] : h \in SystemHistories}

\* how the generation request ends; ok carries the candidate's text
GenFailures == {"network_error", "timeout", "http_error", "no_answer_field"}

Failed == "failed"

GenOutcomes == {"ok"} \cup GenFailures

GenText == <<" ", "a", "n", "s", "\n">>

NoResponse == [status |-> 0]

EmptyMessage == [status |-> 400, error |-> <<"message is required">>]

EmptyKnowledgeBase ==
    [status |-> 400,
     error |-> <<"Knowledge base is empty. Call /ingest first.">>]

GenerationFailed_Leak(cause) == [status |-> 500, error |-> <<cause>>]

\* line 285
GenerationFailed(cause) == [status |-> 500, error |-> <<"LLM generation failed">>]

\* line 287
Answer(answer, sources) == [status |-> 200, answer |-> answer, sources |-> sources]

KnowledgeBaseEmpty_Never(coll) == FALSE

\* collection.count() == 0
KnowledgeBaseEmpty(coll) == Count(coll) = 0

\* lines 202-207; the handler's locals start afresh with each request
ChatReceive ==
    /\ cpc \in {"idle", "done"}
    /\ \E data \in ChatRequests :
        /\ user_message' = Strip(Get(data, "message", <<>>))
        /\ history' = Get(data, "history", <<>>)
    /\ IF user_message' = <<>>
       THEN response' = EmptyMessage /\ cpc' = "done"
       ELSE response' = NoResponse /\ cpc' = "count"
    /\ query_embedding' = ZeroVec(0)
    /\ results' = NoResults
    /\ messages' = <<>> /\ prompt_text' = <<>>
    /\ embedCalls' = 0 /\ genCalls' = 0 /\ genOutcome' = "none"
    /\ countSeen' = -1 /\ installedSeen' = -1 /\ visible' = <<>>
    /\ UNCHANGED <<collection, ingestVars, embedVars>>

\* lines 209-212
ChatCount ==
    /\ cpc = "count"
    /\ countSeen' = Count(collection)
    /\ installedSeen' = Len(installed)
    /\ IF KnowledgeBaseEmpty(collection)
       THEN response' = EmptyKnowledgeBase /\ cpc' = "done"
       ELSE response' = response /\ cpc' = "embed"
    /\ UNCHANGED <<collection, ingestVars, embedVars, user_message, history,
                   query_embedding, results, messages, prompt_text, embedCalls,
                   genCalls, genOutcome, visible>>

\* line 215
ChatEmbed ==
    /\ cpc = "embed"
    /\ \E outcome \in SystemEmbedOutcomes :
        query_embedding' = embed_texts(<<user_message>>, <<outcome>>)[1]
    /\ embedCalls' = embedCalls + 1
    /\ cpc' = "query"
    /\ UNCHANGED <<collection, ingestVars, embedVars, user_message, history,
                   results, messages, prompt_text, response, genCalls,
                   genOutcome, countSeen, installedSeen, visible>>

\* lines 218-257: the query, then the context, the messages and the prompt
ChatQuery ==
    /\ cpc = "query"
    /\ results' \in QueryResults(collection, N_RESULTS)
    /\ visible' = collection.ids
    /\ messages' = AssembleMessages(
                       ContextStr(results'.documents, results'.metadatas),
                       history, user_message)
    /\ prompt_text' = build_prompt_from_messages(messages')
    /\ cpc' = "generate"
    /\ UNCHANGED <<collection, ingestVars, embedVars, user_message, history,
                   query_embedding, response, embedCalls, genCalls, genOutcome,
                   countSeen, installedSeen>>

\* lines 260-287
ChatGenerate ==
    /\ cpc = "generate"
    /\ genCalls' = genCalls + 1
    /\ \E outcome \in GenOutcomes :
        /\ genOutcome' = IF outcome = "ok" THEN "ok" ELSE Failed
        /\ response' = IF outcome = "ok"
                       THEN Answer(Strip(GenText), results.metadatas)
                       ELSE GenerationFailed(outcome)
    /\ cpc' = "done"
    /\ UNCHANGED <<collection, ingestVars, embedVars, user_message, history,
                   query_embedding, results, messages, prompt_text, embedCalls,
                   countSeen, installedSeen, visible>>

ChatNext ==
    ChatReceive \/ ChatCount \/ ChatEmbed \/ ChatQuery \/ ChatGenerate

\* ----------------------------------------------------------- whole system
EmbedIdle ==
    etexts = <<>> /\ eoutcomes = <<>> /\ eresult = <<>> /\ epc = "off"

SystemIdle ==
    /\ collection = EmptyCollection
    /\ ipc = "idle" /\ itopic = 1
    /\ docs = <<>> /\ metas = <<>> /\ ids = <<>> /\ embeddings = <<>>
    /\ ioutcomes = <<>>
    /\ fetched = 0 /\ nextId = 1 /\ installed = <<>>
    /\ query_embedding = ZeroVec(0)
    /\ response = NoResponse
    /\ embedCalls = 0 /\ genCalls = 0 /\ genOutcome = "none"
    /\ countSeen = -1 /\ installedSeen = -1 /\ visible = <<>>

Init ==
    /\ SystemIdle
    /\ cpc = "idle"
    /\ user_message = <<>> /\ history = <<>>
    /\ results = NoResults
    /\ messages = <<>> /\ prompt_text = <<>>
    /\ EmbedIdle

Next ==
    \/ IngestStart \/ IngestFetch \/ IngestFallback \/ IngestEmbed \/ IngestAdd
    \/ ChatReceive \/ ChatCount \/ ChatEmbed \/ ChatQuery \/ ChatGenerate

Spec == Init /\ [][Next]_vars

\* ------------------------------------------------- embed_texts on its own
EmbedTexts == {<<"x">>, <<"y">>}

TextSeqs == UNION {[1..n -> EmbedTexts] : n \in 0..MaxTexts}

InitEmbed ==
    /\ SystemIdle
    /\ cpc = "idle"
    /\ user_message = <<>> /\ history = <<>>
    /\ results = NoResults
    /\ messages = <<>> /\ prompt_text = <<>>
    /\ etexts \in TextSeqs
    /\ eoutcomes \in OutcomeSeqs(Len(etexts))
    /\ eresult = <<>>
    /\ epc = "call"

\* embed_texts(texts) called and returning
EmbedCall ==
    /\ epc = "call"
    /\ eresult' = embed_texts(etexts, eoutcomes)
    /\ epc' = "returned"
    /\ UNCHANGED <<collection, ingestVars, chatVars, etexts, eoutcomes>>

NextEmbed == EmbedCall

SpecEmbed == InitEmbed /\ [][NextEmbed]_vars

\* --------------------------------------------- prompt assembly on its own
TurnText(i) == <<"turn ", ToString(i)>>

\* shapes of the i-th turn of a history: any role or none, any content or none
TurnShapes(i) ==
    {[role |-> r, content |-> c] :
        r \in {"user", "assistant", "system"}, c \in {TurnText(i), <<>>}}
    \cup {[role |-> r] : r \in {"user", "assistant", "system"}}
    \cup {[content |-> c] : c \in {TurnText(i), <<>>}}
    \cup {<< >>}

CommonShapes(i) ==
    {[role |-> r, content |-> TurnText(i)] : r \in {"user", "assistant", "system"}}

PromptResults ==
    {[documents |-> <<Extract(TOPICS[1])>>,
      metadatas |-> <<[title |-> TOPICS[1], source |-> PageUrl(TOPICS[1])]>>,
      ids       |-> <<1>>],
     [documents |-> fallback_docs,
      metadatas |-> [i \in 1..Len(fallback_docs) |-> FallbackMeta(i)],
      ids       |-> [i \in 1..Len(fallback_docs) |-> i]]}

PromptMessages == {<<"q">>, <<"q", " ", "q">>}

InitPrompt ==
    /\ SystemIdle
    /\ EmbedIdle
    /\ cpc = "request"
    /\ user_message \in PromptMessages
    /\ history = <<>>
    /\ results \in PromptResults
    /\ messages = <<>> /\ prompt_text = <<>>

\* turns the caller may put after the ones chosen so far: a turn of any shape
\* while the history is short, a turn of a common shape while all are
NextTurns(h) ==
    (IF Len(h) < MaxMixedLen THEN TurnShapes(Len(h) + 1) ELSE {})
    \cup (IF Len(h) < MaxHist /\ \A i \in 1..Len(h) : h[i] \in CommonShapes(i)
          THEN CommonShapes(Len(h) + 1) ELSE {})

\* the caller's history, chosen turn by turn
PromptTurn ==
    /\ cpc = "request"
    /\ \E t \in NextTurns(history) : history' = Append(history, t)
    /\ UNCHANGED <<collection, ingestVars, embedVars, cpc, user_message,
                   query_embedding, results, messages, prompt_text, response,
                   embedCalls, genCalls, genOutcome, countSeen, installedSeen,
                   visible>>

\* lines 222-257 of chat
PromptAssemble ==
    /\ cpc = "request"
    /\ messages' = AssembleMessages(
                       ContextStr(results.documents, results.metadatas),
                       history, user_message)
    /\ prompt_text' = build_prompt_from_messages(messages')
    /\ cpc' = "assembled"
    /\ UNCHANGED <<collection, ingestVars, embedVars, user_message, history,
                   query_embedding, results, response, embedCalls, genCalls,
                   genOutcome, countSeen, installedSeen, visible>>

NextPrompt == PromptTurn \/ PromptAssemble

SpecPrompt == InitPrompt /\ [][NextPrompt]_vars

\* ------------------------------------------------------------- properties
ChatStep == chatVars' # chatVars

RECURSIVE SumLen(_)
SumLen(ss) == IF ss = <<>> THEN 0 ELSE Len(Head(ss)) + SumLen(Tail(ss))

Aligned(c) ==
    /\ Len(c.documents) = Len(c.ids)
    /\ Len(c.metadatas) = Len(c.ids)
    /\ Len(c.embeddings) = Len(c.ids)

C1_Rejected ==
    /\ (cpc = "done" /\ user_message = <<>>) =>
           response = EmptyMessage /\ embedCalls = 0 /\ genCalls = 0
    /\ (cpc = "done" /\ user_message # <<>> /\ countSeen = 0) =>
           response = EmptyKnowledgeBase /\ embedCalls = 0 /\ genCalls = 0
    /\ cpc \in {"idle", "count"} => embedCalls = 0 /\ genCalls = 0

C1_IndexUntouched == [][ChatStep => collection' = collection]_vars

\* C1: a chat whose trimmed message is empty, or that reads a count of zero,
\* answers 400 (EmptyMessage / EmptyKnowledgeBase) having sent no embedding
\* and no generation request; no step of a chat changes the collection.
C1_RejectedBeforeNetwork == []C1_Rejected /\ C1_IndexUntouched

C1_Witness ==
    /\ cpc = "done" /\ user_message # <<>> /\ countSeen = 0
    /\ response = EmptyKnowledgeBase
    /\ ipc = "add"

C2_IngestInstalls ==
    /\ ipc \in {"embed", "add"} =>
           /\ Len(docs) >= 1
           /\ IF fetched = 0
              THEN /\ docs = fallback_docs
                   /\ \A i \in 1..Len(metas) : metas[i].source = <<"local-fallback">>
              ELSE /\ Len(docs) = fetched
                   /\ \A i \in 1..Len(metas) : metas[i].source # <<"local-fallback">>
    /\ \A k \in 1..Len(installed) : Len(installed[k]) >= 1
    /\ installed # <<>> => Count(collection) >= 1
    /\ response = EmptyKnowledgeBase => installedSeen = 0

\* C2: an ingest reaches its add with at least one document, the fallback
\* documents exactly when no topic yielded one; every completed ingest leaves
\* the collection non-empty; a chat answers EmptyKnowledgeBase only if it read
\* the count before any ingest completed; an ingest begun is never blocked and
\* its loop over the topics is bounded.
C2_Ready ==
    /\ C2_IngestInstalls
    /\ ipc # "idle" => ENABLED IngestNext /\ itopic <= Len(TOPICS) + 1

C2_Witness ==
    /\ Len(installed) = 2
    /\ collection.metadatas[1].source = <<"local-fallback">>
    /\ collection.metadatas[Count(collection)].source # <<"local-fallback">>
    /\ cpc = "embed" /\ installedSeen >= 1

\* C3 as claimed: the collection holds exactly the documents of the most
\* recent ingest.
C3_ReplaceAll ==
    installed # <<>> => collection.ids = installed[Len(installed)]

\* C3 amended: the collection holds the documents of every completed ingest,
\* oldest first, so its count is the sum of their numbers.
C3_Appends ==
    /\ collection.ids = Flatten(installed)
    /\ Count(collection) = SumLen(installed)
    /\ cpc \in {"generate", "done"} => Range(results.ids) \subseteq Range(visible)

C3_Witness ==
    /\ Len(installed) = 2
    /\ Count(collection) > Len(installed[2])
    /\ cpc = "generate" /\ installedSeen = 2
    /\ \E j \in 1..Len(results.ids) : results.ids[j] \in Range(installed[1])

C4_WholeBatches ==
    /\ Aligned(collection)
    /\ \E k \in 0..Len(installed) : visible = Flatten(SubSeq(installed, 1, k))
    /\ Len(results.documents) = Len(results.ids)
    /\ Len(results.metadatas) = Len(results.ids)
    /\ \A j \in 1..Len(results.ids) :
          \E i \in 1..Count(collection) :
              /\ collection.ids[i] = results.ids[j]
              /\ collection.documents[i] = results.documents[j]
              /\ collection.metadatas[i] = results.metadatas[j]

C4_OneInstall ==
    [][collection' # collection =>
          /\ ipc = "add" /\ ipc' = "idle"
          /\ Count(collection') = Count(collection) + Len(docs)]_vars

\* C4: what a chat's query sees is the documents of some number of whole
\* ingests, never part of one; each returned document comes with its own
\* metadata; the four lists of the collection have one length; the collection
\* changes only in an ingest's single add, by all of its documents.
C4_AtomicPublish == []C4_WholeBatches /\ C4_OneInstall

C4_Witness ==
    /\ cpc = "generate"
    /\ visible # <<>>
    /\ Len(visible) < Count(collection)
    /\ Len(installed) = 2 /\ Len(installed[2]) >= 2

C5_Generic ==
    /\ genCalls <= 1
    /\ (cpc = "done" /\ genOutcome = Failed) =>
           /\ genCalls = 1
           /\ response.status = 500
           /\ DOMAIN response = {"status", "error"}
           /\ response.error = <<"LLM generation failed">>
    /\ (cpc = "done" /\ response.status = 500) => genOutcome = Failed

C5_IndexUntouched == [][ChatStep => Aligned(collection') /\ collection' = collection]_vars

\* C5: a generation request that fails in any way gives the one response
\* 500 "LLM generation failed", without answer, sources or cause; a chat sends
\* at most one generation request; no step of a chat changes the collection.
C5_GenerationFailed == []C5_Generic /\ C5_IndexUntouched

C5_Witness ==
    /\ cpc = "done" /\ genOutcome = Failed
    /\ response.status = 500 /\ Count(collection) >= 1

\* C6: embed_texts gives one vector per text, in order: the provider's vector
\* where the provider answered, an all-zero vector where it failed; so an
\* ingest reaches its add, and the collection stays, with documents,
\* metadata, ids and embeddings of one length.
C6_OnePerText ==
    /\ ipc = "add" =>
           /\ Len(embeddings) = Len(docs)
           /\ Len(metas) = Len(docs) /\ Len(ids) = Len(docs)
           /\ \A i \in 1..Len(docs) :
                 IF ioutcomes[i] = Fail
                 THEN embeddings[i].zero /\ embeddings[i].text = <<>>
                 ELSE embeddings[i] = [dim |-> ioutcomes[i], zero |-> FALSE,
                                       text |-> docs[i]]
    /\ Aligned(collection)
    /\ Count(collection) = SumLen(installed)

C6_Witness ==
    /\ ipc = "add"
    /\ Len(docs) = 2 /\ Len(embeddings) = 2
    /\ ioutcomes = <<Fail, DefaultDim>>
    /\ embeddings[1] = ZeroVec(DefaultDim)
    /\ ~embeddings[2].zero
    /\ Count(collection) = 2

C7_LastSuccessDim(i) ==
    LET S == {j \in 1..(i - 1) : eoutcomes[j] # Fail}
    IN  IF S = {} THEN DefaultDim
        ELSE eoutcomes[CHOOSE j \in S : \A k \in S : k <= j]

\* C7 as claimed: the zero vector of a failed text has the length of the
\* latest vector the provider returned earlier in the batch, or 768 if it
\* returned none, and all vectors of a batch have one length.
C7_MostRecent ==
    epc = "returned" =>
        /\ \A i \in 1..Len(eresult) :
              eoutcomes[i] = Fail => eresult[i].dim = C7_LastSuccessDim(i)
        /\ \A i, j \in 1..Len(eresult) : eresult[i].dim = eresult[j].dim

\* C7 amended: the zero vector of a failed text has the length of the first
\* vector of the batch's result so far (itself a 768-long zero vector if the
\* first text failed), or 768 if the failed text is the first; all vectors of
\* a batch have one length when every vector the provider returns has 768
\* values.
C7_FirstDim ==
    epc = "returned" =>
        /\ Len(eresult) = Len(etexts)
        /\ \A i \in 1..Len(eresult) :
              eoutcomes[i] = Fail =>
                  eresult[i].dim = IF i = 1 THEN DefaultDim ELSE eresult[1].dim
        /\ (\A i \in 1..Len(eresult) : eoutcomes[i] \in {Fail, DefaultDim}) =>
               \A i \in 1..Len(eresult) : eresult[i].dim = DefaultDim

C7_Witness ==
    /\ epc = "returned"
    /\ eoutcomes = <<OtherDim, DefaultDim, Fail>>
    /\ eresult[3].zero /\ eresult[3].dim = OtherDim

\* ---- expected history entries, stated on the request alone
C_Retained == SubSeq(messages, 3, Len(messages) - 1)

C_LastSix ==
    LET n == Len(history)
        k == IF n < HistoryWindow THEN n ELSE HistoryWindow
    IN  [j \in 1..k |-> history[n - k + j]]

C_ValidTurn(h) ==
    /\ "role" \in DOMAIN h /\ "content" \in DOMAIN h
    /\ h.role \in {"user", "assistant"}
    /\ h.content # <<>>

C_HasContent(h) == "content" \in DOMAIN h /\ h.content # <<>>

C_Normalized(h) ==
    [role |-> IF "role" \in DOMAIN h /\ h.role \in {"user", "assistant"}
              THEN h.role ELSE "user",
     content |-> h.content]

\* C8: when every turn of the history has a role of user or assistant and
\* non-empty content, the messages carry exactly its last min(n, 6) turns, in
\* order, between the two system entries and the new user message.
C8_LastSix ==
    (cpc = "assembled" /\ \A i \in 1..Len(history) : C_ValidTurn(history[i])) =>
        /\ Len(messages) = 3 + (IF Len(history) < 6 THEN Len(history) ELSE 6)
        /\ \A j \in 1..(Len(messages) - 3) :
              messages[2 + j] = history[Len(history) - (Len(messages) - 3) + j]

C8_Witness ==
    /\ cpc = "assembled"
    /\ Len(history) = 10
    /\ \A i \in 1..Len(history) : C_ValidTurn(history[i])
    /\ Len(messages) = 9
    /\ messages[3] = history[5] /\ messages[8] = history[10]

\* C9 as claimed: of the last 6 turns, those with non-empty content are all
\* kept, a role other than user/assistant (or none) turned into user.
C9_Normalizes ==
    cpc = "assembled" =>
        LET kept == SelectSeq(C_LastSix, C_HasContent)
        IN  C_Retained = [j \in 1..Len(kept) |-> C_Normalized(kept[j])]

\* C9 amended: of the last 6 turns, exactly those with a role of user or
\* assistant and non-empty content are kept, unchanged and in order; a turn
\* with empty or missing content, or with another or no role, is skipped.
C9_SkipsOtherRoles ==
    cpc = "assembled" => C_Retained = SelectSeq(C_LastSix, C_ValidTurn)

C9_Witness ==
    /\ cpc = "assembled"
    /\ Len(history) = 3
    /\ history[1] = [content |-> TurnText(1)]
    /\ history[2] = [role |-> "system", content |-> TurnText(2)]
    /\ history[3] = [role |-> "assistant", content |-> TurnText(3)]
    /\ C_Retained = <<history[3]>>

C_Label(m) ==
    CASE m.role = "system"    -> "System"
      [] m.role = "assistant" -> "Assistant"
      [] m.role = "user"      -> "User"

C_Line(i) ==
    <<C_Label(messages[i]), ": ">> \o messages[i].content
    \o (IF i < Len(messages) THEN <<"\n\n">> ELSE <<>>)

\* C10: the messages are the system instruction, the system context, the
\* retained turns in order and last the new user message as a user entry; the
\* prompt is their role-labelled lines in that order, a blank line between.
C10_Ordering ==
    cpc = "assembled" =>
        /\ Len(messages) >= 3
        /\ messages[1] = [role |-> "system", content |-> SYSTEM_INSTRUCTION]
        /\ messages[2].role = "system"
        /\ SubSeq(messages[2].content, 1, 2) = <<"Knowledge base context:", "\n">>
        /\ messages[Len(messages)] = [role |-> "user", content |-> user_message]
        /\ C_Retained = SelectSeq(C_LastSix, C_ValidTurn)
        /\ \A i \in 1..Len(messages) :
              DOMAIN messages[i] = {"role", "content"} /\ messages[i].content # <<>>
        /\ prompt_text = Flatten([i \in 1..Len(messages) |-> C_Line(i)])

C10_Witness ==
    /\ cpc = "assembled"
    /\ Len(history) = 7
    /\ Len(messages) = 7
    /\ history[3].role = "system"
    /\ messages[Len(messages)] = [role |-> "user", content |-> <<"q", " ", "q">>]
    /\ Len(results.documents) >= 2

====
